---- MODULE Spec2Model ----
(***************************************************************************)
(* lblight: routing table (LBLight) and backend pool (BackendRouter) of    *)
(* src/pkg/lblight.go, as a state machine.                                 *)
(*                                                                         *)
(* Strings are sequences of one-character strings, so that                 *)
(* strings.ToLower and strings.HasPrefix are computed, not assumed.        *)
(* Goroutines (one per inbound request, or one per direct API caller) are  *)
(* the elements of Procs; GetBackend takes no lock, so its shared reads    *)
(* and writes are separate steps that interleave.                          *)
(***************************************************************************)
EXTENDS Integers, Sequences, FiniteSets, TLC

\* ---------------------------------------------------------------- bounds
NumRouters == 2        \* BackendRouter objects that may be constructed
NumProcs == 2          \* goroutines calling into the balancer concurrently
MaxCap == 1            \* largest maxBackends given to NewBackendRouter
MaxCalls == 5          \* API calls (constructors, registrations, requests, ...) per run
MaxPaths == 1          \* largest acceptedPaths map given to NewBackendRouter

RouterIds == 1..NumRouters
Procs == 1..NumProcs
NoBackend == 0         \* the nil *Backend
NoRouter == 0          \* the nil *BackendRouter

\* ------------------------------------------------------- sample strings
PathA == <<"/", "a">>
PathUpperA == <<"/", "A">>
PathAB == <<"/", "a", "/", "b">>
PathPrefixes == {PathA, PathUpperA, PathAB}
RequestPaths == {<<"/", "a", "/", "b", "/", "c">>, <<"/", "a", "/", "c">>,
                 <<"/", "A", "/", "c">>, <<"/", "z">>}
HeaderNames == {"X-Route"}
HeaderValues == {"blue"}
Hosts == {"upstream", "%zz"}

\* ------------------------------------------------------ string library
\* unicode.ToLower on the sample alphabet
LowerChar(c) ==
  CASE c = "A" -> "a"
    [] c = "B" -> "b"
    [] c = "C" -> "c"
    [] c = "Z" -> "z"
    [] OTHER -> c

\* strings.ToLower
ToLower(s) == [i \in 1..Len(s) |-> LowerChar(s[i])]

\* strings.HasPrefix
HasPrefix(s, prefix) ==
  /\ Len(s) >= Len(prefix)
  /\ SubSeq(s, 1, Len(prefix)) = prefix

\* url.Parse applied to "http://<host>:<port>": fails on an invalid
\* percent-escape in the host
UrlParseFails(host) == host = "%zz"

\* ----------------------------------------------------------- the state
VARIABLES
  routers,     \* id -> BackendRouter fields, for the routers constructed so far
  InUse,       \* Backend id -> Backend.InUse, for the Backends allocated so far
  pathPrefixToBackendRouter,  \* LBLight.pathPrefixToBackendRouter
  headerToBackendRouter,      \* LBLight.headerToBackendRouter
  running,     \* FALSE once log.Fatalf has ended the process
  pc,          \* per goroutine: position in its current call ("idle", "scan",
               \* "mark", "create", "append", "serve", "fail")
  op,          \* per goroutine: "request" (handler) or "acquire" (direct GetBackend)
  rtr,         \* per goroutine: the router GetBackend runs on
  snap,        \* per goroutine: slice value read at range start / by append
  idx,         \* per goroutine: range index (1-based)
  cur,         \* per goroutine: the local variable be
  reqPath,     \* per goroutine: req.URL.Path of the request being handled
  res,         \* per goroutine: what its last call returned, and what the handler
               \* wrote to the http.ResponseWriter
  addResult,   \* router id -> what the last AddBackendRouter(router) returned
  registered,  \* history: routers for which AddBackendRouter returned nil
  grants,      \* history: Backend id -> GetBackend returns since its last Release (capped at 2)
  trail,       \* history: router id -> its last three Acquire/Release events, each
               \* with the Backend, the list's length and the Backend's flag after it
  calls        \* API calls made so far

vars == <<routers, InUse, pathPrefixToBackendRouter, headerToBackendRouter, running,
          pc, op, rtr, snap, idx, cur, reqPath, res, addResult, registered, grants, trail, calls>>

poolVars == <<routers, InUse>>
tableVars == <<pathPrefixToBackendRouter, headerToBackendRouter>>
procVars == <<pc, op, rtr, snap, idx, cur, reqPath, res>>
regVars == <<addResult, registered>>

EmptyMap == [x \in {} |-> NoRouter]
NoResult == [be |-> NoBackend, err |-> "none", wrote |-> "none"]

\* maps given to NewBackendRouter: acceptedHeaders is map[string]string,
\* one value per header name
HeaderMaps == UNION {[D -> HeaderValues] : D \in SUBSET HeaderNames}
PathSets == {S \in SUBSET PathPrefixes : Cardinality(S) <= MaxPaths}

Init ==
  /\ routers = EmptyMap
  /\ InUse = [b \in {} |-> FALSE]
  /\ pathPrefixToBackendRouter = EmptyMap
  /\ headerToBackendRouter = [n \in {} |-> EmptyMap]
  /\ running = TRUE
  /\ pc = [p \in Procs |-> "idle"]
  /\ op = [p \in Procs |-> "none"]
  /\ rtr = [p \in Procs |-> NoRouter]
  /\ snap = [p \in Procs |-> <<>>]
  /\ idx = [p \in Procs |-> 0]
  /\ cur = [p \in Procs |-> NoBackend]
  /\ reqPath = [p \in Procs |-> <<>>]
  /\ res = [p \in Procs |-> NoResult]
  /\ addResult = EmptyMap
  /\ registered = {}
  /\ grants = [b \in {} |-> 0]
  /\ trail = EmptyMap
  /\ calls = 0

\* a new API call may start
CanCall == running /\ calls < MaxCalls

\* goroutine p may start a call: goroutines are interchangeable, so a call
\* starts on the first idle one
CanStart(p) ==
  /\ CanCall
  /\ pc[p] = "idle"
  /\ \A q \in Procs : q < p => pc[q] # "idle"

\* ------------------------------------------------- NewBackendRouter
NewBackendRouter(r, host, acceptedHeaders, acceptedPaths, maxBackends) ==
  /\ CanCall
  /\ r \notin DOMAIN routers
  /\ \A q \in RouterIds : q < r => q \in DOMAIN routers
  /\ routers' = [q \in DOMAIN routers \cup {r} |->
                   IF q = r
                   THEN [host |-> host, maxBackends |-> maxBackends,
                         acceptedPaths |-> acceptedPaths,
                         acceptedHeaders |-> acceptedHeaders,
                         backends |-> <<>>]
                   ELSE routers[q]]
  /\ addResult' = [q \in DOMAIN routers \cup {r} |-> IF q = r THEN "none" ELSE addResult[q]]
  /\ trail' = [q \in DOMAIN routers \cup {r} |-> IF q = r THEN <<>> ELSE trail[q]]
  /\ calls' = calls + 1
  /\ UNCHANGED <<InUse, tableVars, running, procVars, registered, grants>>

\* ---------------------------------------------------- table look-ups
\* GetBackendRouterByExactPathPrefix: NoRouter stands for the error return
GetBackendRouterByExactPathPrefix(table, path) ==
  LET lowerPath == ToLower(path)
  IN IF lowerPath \in DOMAIN table THEN table[lowerPath] ELSE NoRouter

\* a match taken on the path as the request spells it
PathPrefixMatchesRaw(table, path) ==
  {prefix \in DOMAIN table : HasPrefix(path, prefix)}

\* GetBackendRouterByPathPrefix ranges over a Go map, whose iteration order
\* is unspecified: the routers it may return, {} for the error return
PathPrefixMatches(table, path) ==
  LET lowerPath == ToLower(path)
  IN {prefix \in DOMAIN table : HasPrefix(lowerPath, prefix)}

\* a look-up that falls back on any registered router when no prefix matches
GetBackendRouterByPathPrefixFallback(table, path) ==
  IF PathPrefixMatches(table, path) = {}
  THEN {table[prefix] : prefix \in DOMAIN table}
  ELSE {table[prefix] : prefix \in PathPrefixMatches(table, path)}

GetBackendRouterByPathPrefix(table, path) ==
  {table[prefix] : prefix \in PathPrefixMatches(table, path)}

\* GetBackendRouterByHeader: NoRouter stands for the error return
GetBackendRouterByHeader(htable, headerName, headerValue) ==
  IF headerName \in DOMAIN htable /\ headerValue \in DOMAIN htable[headerName]
  THEN htable[headerName][headerValue]
  ELSE NoRouter

\* ------------------------------------------------- AddBackendRouter
\* lines 157-176: some accepted path or header pair is found registered
AddConflict(table, htable, ber) ==
  \/ \E path \in ber.acceptedPaths :
       GetBackendRouterByExactPathPrefix(table, path) # NoRouter
  \/ \E header \in DOMAIN ber.acceptedHeaders :
       GetBackendRouterByHeader(htable, header, ber.acceptedHeaders[header]) # NoRouter

\* lines 179-183: l.pathPrefixToBackendRouter[path] = ber, the key as given
CommitPaths(table, r, acceptedPaths) ==
  [k \in DOMAIN table \cup acceptedPaths |->
     IF k \in acceptedPaths THEN r ELSE table[k]]

\* lines 185-197: the bucket of a header name is looked up; a missing bucket
\* is made as a local map that is never stored in l.headerToBackendRouter, so
\* only buckets the table already holds receive the entry
CommitHeaders(htable, r, acceptedHeaders) ==
  [n \in DOMAIN htable |->
     IF n \in DOMAIN acceptedHeaders
     THEN [v \in DOMAIN htable[n] \cup {acceptedHeaders[n]} |->
             IF v = acceptedHeaders[n] THEN r ELSE htable[n][v]]
     ELSE htable[n]]

AddBackendRouter(r) ==
  /\ CanCall
  /\ r \in DOMAIN routers
  /\ calls' = calls + 1
  /\ IF AddConflict(pathPrefixToBackendRouter, headerToBackendRouter, routers[r])
     THEN /\ addResult' = [addResult EXCEPT ![r] = "conflict"]
          /\ UNCHANGED <<tableVars, registered>>
     ELSE /\ pathPrefixToBackendRouter' =
               CommitPaths(pathPrefixToBackendRouter, r, routers[r].acceptedPaths)
          /\ headerToBackendRouter' =
               CommitHeaders(headerToBackendRouter, r, routers[r].acceptedHeaders)
          /\ addResult' = [addResult EXCEPT ![r] = "nil"]
          /\ registered' = registered \cup {r}
  /\ UNCHANGED <<poolVars, running, procVars, grants, trail>>

\* --------------------------------------------------------- GetBackend
\* the last three events of a router's trail, with e added
Push(t, e) == IF Len(t) < 3 THEN Append(t, e) ELSE Append(Tail(t), e)

Bump(n) == IF n < 2 THEN n + 1 ELSE 2

\* GetBackend returns (b, e) to goroutine p; backends is the router's list and
\* flags the Backends' InUse as the return leaves them.  A handler that got a
\* Backend goes on to forward, one that got an error goes on to log it.
Returns(p, b, e, backends, flags) ==
  /\ res' = [res EXCEPT ![p] = [be |-> b, err |-> e, wrote |-> "none"]]
  /\ IF op[p] = "request"
     THEN /\ pc' = [pc EXCEPT ![p] = IF e = "nil" THEN "serve" ELSE "fail"]
          /\ cur' = [cur EXCEPT ![p] = b]
          /\ UNCHANGED <<op, rtr, reqPath>>
     ELSE /\ pc' = [pc EXCEPT ![p] = "idle"]
          /\ cur' = [cur EXCEPT ![p] = NoBackend]
          /\ op' = [op EXCEPT ![p] = "none"]
          /\ rtr' = [rtr EXCEPT ![p] = NoRouter]
          /\ reqPath' = [reqPath EXCEPT ![p] = <<>>]
  /\ snap' = [snap EXCEPT ![p] = <<>>]
  /\ idx' = [idx EXCEPT ![p] = 0]
  /\ grants' = IF b # NoBackend THEN [grants EXCEPT ![b] = Bump(@)] ELSE grants
  /\ trail' = [trail EXCEPT ![rtr[p]] =
                 Push(@, [ev |-> "acq", be |-> b, n |-> Len(backends),
                          inUse |-> IF b # NoBackend THEN flags[b] ELSE FALSE])]

\* line 69: range evaluates ber.backends once
EnterGetBackend(p, r, kind, path) ==
  /\ pc' = [pc EXCEPT ![p] = "scan"]
  /\ op' = [op EXCEPT ![p] = kind]
  /\ rtr' = [rtr EXCEPT ![p] = r]
  /\ snap' = [snap EXCEPT ![p] = routers[r].backends]
  /\ idx' = [idx EXCEPT ![p] = 1]
  /\ cur' = [cur EXCEPT ![p] = NoBackend]
  /\ reqPath' = [reqPath EXCEPT ![p] = path]
  /\ res' = [res EXCEPT ![p] = NoResult]

\* a caller invokes ber.GetBackend() directly
CallGetBackend(p, r) ==
  /\ CanStart(p)
  /\ r \in DOMAIN routers
  /\ calls' = calls + 1
  /\ EnterGetBackend(p, r, "acquire", <<>>)
  /\ UNCHANGED <<poolVars, tableVars, running, regVars, grants, trail>>

\* a scan that never finds a Backend spare
IsSpareNever(flags, be) == FALSE

\* line 70: !be.InUse
IsSpare(flags, be) == ~flags[be]

\* lines 69-70: one iteration's read of be.InUse
Scan(p) ==
  /\ running
  /\ pc[p] = "scan"
  /\ idx[p] <= Len(snap[p])
  /\ IF IsSpare(InUse, snap[p][idx[p]])
     THEN /\ pc' = [pc EXCEPT ![p] = "mark"]
          /\ cur' = [cur EXCEPT ![p] = snap[p][idx[p]]]
          /\ UNCHANGED idx
     ELSE /\ idx' = [idx EXCEPT ![p] = @ + 1]
          /\ UNCHANGED <<pc, cur>>
  /\ UNCHANGED <<poolVars, tableVars, running, op, rtr, snap, reqPath, res, regVars, grants, trail, calls>>

\* lines 71-72: ber.backends[index].InUse = true indexes the slice as it is
\* now; an index past its end panics (net/http recovers a handler's panic, a
\* direct caller's panic ends the process)
Mark(p) ==
  /\ running
  /\ pc[p] = "mark"
  /\ LET now == routers[rtr[p]].backends
     IN IF idx[p] <= Len(now)
        THEN /\ InUse' = [InUse EXCEPT ![now[idx[p]]] = TRUE]
             /\ Returns(p, cur[p], "nil", now, [InUse EXCEPT ![now[idx[p]]] = TRUE])
             /\ UNCHANGED running
        ELSE /\ res' = [res EXCEPT ![p] = [be |-> NoBackend, err |-> "panic", wrote |-> "none"]]
             /\ pc' = [pc EXCEPT ![p] = "idle"]
             /\ cur' = [cur EXCEPT ![p] = NoBackend]
             /\ snap' = [snap EXCEPT ![p] = <<>>]
             /\ idx' = [idx EXCEPT ![p] = 0]
             /\ op' = [op EXCEPT ![p] = "none"]
             /\ rtr' = [rtr EXCEPT ![p] = NoRouter]
             /\ reqPath' = [reqPath EXCEPT ![p] = <<>>]
             /\ running' = (op[p] = "request")
             /\ UNCHANGED <<InUse, grants, trail>>
  /\ UNCHANGED <<routers, tableVars, regVars, calls>>

\* line 77: the capacity test
HasRoom(len, maxBackends) == len <= maxBackends

\* lines 77 and 84: after the loop, the capacity test on len(ber.backends)
Check(p) ==
  /\ running
  /\ pc[p] = "scan"
  /\ idx[p] > Len(snap[p])
  /\ IF HasRoom(Len(routers[rtr[p]].backends), routers[rtr[p]].maxBackends)
     THEN /\ pc' = [pc EXCEPT ![p] = "create"]
          /\ UNCHANGED <<op, rtr, snap, idx, cur, reqPath, res, grants, trail>>
     ELSE Returns(p, NoBackend, "exhausted", routers[rtr[p]].backends, InUse)
  /\ UNCHANGED <<poolVars, tableVars, running, regVars, calls>>

\* lines 22-35: the Backend NewBackend builds
NewBackend == [InUse |-> FALSE, Alive |-> FALSE]

\* lines 78-79: NewBackend (log.Fatalf when url.Parse fails), then append
\* reads ber.backends
Create(p) ==
  /\ running
  /\ pc[p] = "create"
  /\ IF UrlParseFails(routers[rtr[p]].host)
     THEN /\ running' = FALSE
          /\ UNCHANGED <<InUse, pc, snap, cur, grants>>
     ELSE LET be == Cardinality(DOMAIN InUse) + 1
          IN /\ InUse' = [b \in DOMAIN InUse \cup {be} |->
                            IF b = be THEN NewBackend.InUse ELSE InUse[b]]
             /\ grants' = [b \in DOMAIN grants \cup {be} |->
                            IF b = be THEN 0 ELSE grants[b]]
             /\ cur' = [cur EXCEPT ![p] = be]
             /\ snap' = [snap EXCEPT ![p] = routers[rtr[p]].backends]
             /\ pc' = [pc EXCEPT ![p] = "append"]
             /\ UNCHANGED running
  /\ UNCHANGED <<routers, tableVars, op, rtr, idx, reqPath, res, regVars, trail, calls>>

\* lines 79-80: ber.backends is assigned the appended slice, be is returned
AppendWrite(p) ==
  /\ running
  /\ pc[p] = "append"
  /\ LET now == Append(snap[p], cur[p])
     IN /\ routers' = [routers EXCEPT ![rtr[p]].backends = now]
        /\ Returns(p, cur[p], "nil", now, InUse)
  /\ UNCHANGED <<InUse, tableVars, running, regVars, calls>>

\* ------------------------------------------------------- the handler
\* a look-up that stores the lower-cased path it was asked for
TableAfterLookupCaching(table, path) ==
  [k \in DOMAIN table \cup {ToLower(path)} |->
     IF k \in DOMAIN table THEN table[k] ELSE NoRouter]

\* lines 125-134: the look-up reads l.pathPrefixToBackendRouter and stores
\* nothing in it
TableAfterLookup(table, path) == table

\* lines 207-224: getBackend resolves the router by path prefix; without a
\* match it returns the error to the handler, otherwise GetBackend starts
StartRequest(p, path) ==
  /\ CanStart(p)
  /\ calls' = calls + 1
  /\ pathPrefixToBackendRouter' = TableAfterLookup(pathPrefixToBackendRouter, path)
  /\ LET found == GetBackendRouterByPathPrefix(pathPrefixToBackendRouter, path)
     IN IF found = {}
        THEN /\ res' = [res EXCEPT ![p] =
                         [be |-> NoBackend, err |-> "nomatch", wrote |-> "none"]]
             /\ pc' = [pc EXCEPT ![p] = "fail"]
             /\ op' = [op EXCEPT ![p] = "request"]
             /\ reqPath' = [reqPath EXCEPT ![p] = path]
             /\ UNCHANGED <<rtr, snap, idx, cur>>
        ELSE \E r \in found : EnterGetBackend(p, r, "request", path)
  /\ UNCHANGED <<poolVars, headerToBackendRouter, running, regVars, grants, trail>>

\* lines 225-228: on an error from getBackend the handler logs it and
\* returns; nothing is written to res, the http.ResponseWriter
LogError(p) ==
  /\ running
  /\ pc[p] = "fail"
  /\ pc' = [pc EXCEPT ![p] = "idle"]
  /\ cur' = [cur EXCEPT ![p] = NoBackend]
  /\ op' = [op EXCEPT ![p] = "none"]
  /\ rtr' = [rtr EXCEPT ![p] = NoRouter]
  /\ reqPath' = [reqPath EXCEPT ![p] = <<>>]
  /\ UNCHANGED <<poolVars, tableVars, running, snap, idx, res, regVars, grants, trail, calls>>

ForwardOutcomes == {"forwarded", "forward_error", "cancelled"}

\* httputil.ReverseProxy relays the upstream's response, and answers 502 Bad
\* Gateway when the exchange fails or the client's context is cancelled
ProxyWrites(outcome) == IF outcome = "forwarded" THEN "upstream" ELSE "502"

\* lines 230-231: ReverseProxy.ServeHTTP runs the exchange, then the handler
\* returns
Serve(p) ==
  /\ running
  /\ pc[p] = "serve"
  /\ \E outcome \in ForwardOutcomes :
       res' = [res EXCEPT ![p].err = outcome, ![p].wrote = ProxyWrites(outcome)]
  /\ pc' = [pc EXCEPT ![p] = "idle"]
  /\ cur' = [cur EXCEPT ![p] = NoBackend]
  /\ op' = [op EXCEPT ![p] = "none"]
  /\ rtr' = [rtr EXCEPT ![p] = NoRouter]
  /\ reqPath' = [reqPath EXCEPT ![p] = <<>>]
  /\ UNCHANGED <<poolVars, tableVars, running, snap, idx, regVars, grants, trail, calls>>

\* ------------------------------------------------------------ Release
\* a Release that clears the flag of any Backend it is handed
ReleaseFlagsAny(flags, backends, b) == [flags EXCEPT ![b] = FALSE]

\* BackendGroup.Release of the specification: clears inUse of a Backend the
\* group owns, and does nothing for any other Backend
ReleaseFlags(flags, backends, b) ==
  IF \E i \in 1..Len(backends) : backends[i] = b
  THEN [flags EXCEPT ![b] = FALSE]
  ELSE flags

Release(r, b) ==
  /\ CanCall
  /\ r \in DOMAIN routers
  /\ b \in DOMAIN InUse
  /\ calls' = calls + 1
  /\ InUse' = ReleaseFlags(InUse, routers[r].backends, b)
  /\ grants' = [grants EXCEPT ![b] = 0]
  /\ trail' = [trail EXCEPT ![r] =
                 Push(@, [ev |-> "rel", be |-> b, n |-> Len(routers[r].backends),
                          inUse |-> ReleaseFlags(InUse, routers[r].backends, b)[b]])]
  /\ UNCHANGED <<routers, tableVars, running, procVars, regVars>>

\* ------------------------------------------------------ specifications
Next ==
  \/ \E r \in RouterIds, host \in Hosts, hs \in HeaderMaps, ps \in PathSets,
        m \in 1..MaxCap : NewBackendRouter(r, host, hs, ps, m)
  \/ \E r \in RouterIds : AddBackendRouter(r)
  \/ \E p \in Procs, r \in RouterIds : CallGetBackend(p, r)
  \/ \E p \in Procs, path \in RequestPaths : StartRequest(p, path)
  \/ \E p \in Procs : Scan(p)
  \/ \E p \in Procs : Mark(p)
  \/ \E p \in Procs : Check(p)
  \/ \E p \in Procs : Create(p)
  \/ \E p \in Procs : AppendWrite(p)
  \/ \E p \in Procs : Serve(p)
  \/ \E p \in Procs : LogError(p)
  \/ \E r \in RouterIds, b \in DOMAIN InUse : Release(r, b)

Spec == Init /\ [][Next]_vars

\* calls made one after another: a call starts only when no other is running
AllIdle == \A p \in Procs : pc[p] = "idle"

NextSeq ==
  \/ \E r \in RouterIds, host \in Hosts, hs \in HeaderMaps, ps \in PathSets,
        m \in 1..MaxCap : AllIdle /\ NewBackendRouter(r, host, hs, ps, m)
  \/ \E r \in RouterIds : AllIdle /\ AddBackendRouter(r)
  \/ \E p \in Procs, r \in RouterIds : AllIdle /\ CallGetBackend(p, r)
  \/ \E p \in Procs, path \in RequestPaths : AllIdle /\ StartRequest(p, path)
  \/ \E r \in RouterIds, b \in DOMAIN InUse : AllIdle /\ Release(r, b)
  \/ \E p \in Procs : Scan(p)
  \/ \E p \in Procs : Mark(p)
  \/ \E p \in Procs : Check(p)
  \/ \E p \in Procs : Create(p)
  \/ \E p \in Procs : AppendWrite(p)
  \/ \E p \in Procs : Serve(p)
  \/ \E p \in Procs : LogError(p)

SpecSeq == Init /\ [][NextSeq]_vars

\* the pool used on its own, calls made one after another: routers built
\* with nil acceptedHeaders and acceptedPaths, GetBackend called directly
NextPoolSeq ==
  \/ \E r \in RouterIds, host \in Hosts, m \in 1..MaxCap :
        AllIdle /\ NewBackendRouter(r, host, EmptyMap, {}, m)
  \/ \E p \in Procs, r \in RouterIds : AllIdle /\ CallGetBackend(p, r)
  \/ \E r \in RouterIds, b \in DOMAIN InUse : AllIdle /\ Release(r, b)
  \/ \E p \in Procs : Scan(p)
  \/ \E p \in Procs : Mark(p)
  \/ \E p \in Procs : Check(p)
  \/ \E p \in Procs : Create(p)
  \/ \E p \in Procs : AppendWrite(p)

SpecPoolSeq == Init /\ [][NextPoolSeq]_vars

\* the server on its own: routers of one target and one capacity are built
\* and registered, and requests are handled one after another
NextRoute ==
  \/ \E r \in RouterIds, hs \in HeaderMaps, ps \in PathSets :
        AllIdle /\ NewBackendRouter(r, "upstream", hs, ps, MaxCap)
  \/ \E r \in RouterIds : AllIdle /\ AddBackendRouter(r)
  \/ \E p \in Procs, path \in RequestPaths : AllIdle /\ StartRequest(p, path)
  \/ \E p \in Procs : Scan(p)
  \/ \E p \in Procs : Mark(p)
  \/ \E p \in Procs : Check(p)
  \/ \E p \in Procs : Create(p)
  \/ \E p \in Procs : AppendWrite(p)
  \/ \E p \in Procs : Serve(p)
  \/ \E p \in Procs : LogError(p)

SpecRoute == Init /\ [][NextRoute]_vars

\* the pool used on its own by concurrent callers
NextPool ==
  \/ \E r \in RouterIds, host \in Hosts, m \in 1..MaxCap :
        NewBackendRouter(r, host, EmptyMap, {}, m)
  \/ \E p \in Procs, r \in RouterIds : CallGetBackend(p, r)
  \/ \E r \in RouterIds, b \in DOMAIN InUse : Release(r, b)
  \/ \E p \in Procs : Scan(p)
  \/ \E p \in Procs : Mark(p)
  \/ \E p \in Procs : Check(p)
  \/ \E p \in Procs : Create(p)
  \/ \E p \in Procs : AppendWrite(p)

SpecPool == Init /\ [][NextPool]_vars

\* --------------------------------------------------------- properties
\* the Backends a router's list holds
Owned(r) == {routers[r].backends[i] : i \in 1..Len(routers[r].backends)}

\* C1: a router never owns more Backends than its maxBackends.
Capacity ==
  \A r \in DOMAIN routers : Len(routers[r].backends) <= routers[r].maxBackends

\* C2: no Backend is returned by two GetBackend calls without a Release of it
\* between the two returns.
MutualExclusion == \A b \in DOMAIN grants : grants[b] <= 1

\* C3: when the handler returns after forwarding (with any outcome), the
\* Backend it acquired has been released: it is not in use.
GuaranteedRelease ==
  [][\A p \in Procs :
       (pc[p] = "serve" /\ pc'[p] = "idle") => ~InUse'[cur[p]]]_vars

\* C4: a GetBackend that finds the router with maxBackends Backends, all in
\* use, returns the pool-exhausted error, creates no Backend and leaves the
\* list and the flags as they were.
PoolExhaustion ==
  [][\A p \in Procs :
       ( /\ pc[p] = "scan" /\ idx[p] > Len(snap[p]) /\ pc'[p] # "scan"
         /\ Len(routers[rtr[p]].backends) = routers[rtr[p]].maxBackends
         /\ \A b \in Owned(rtr[p]) : InUse[b] )
       => /\ pc'[p] \in {"idle", "fail"}
          /\ res'[p].be = NoBackend /\ res'[p].err = "exhausted"
          /\ routers' = routers
          /\ InUse' = InUse]_vars

\* the (header name, header value) pairs a router accepts
HeaderPairs(r) ==
  {<<n, routers[r].acceptedHeaders[n]>> : n \in DOMAIN routers[r].acceptedHeaders}

\* routers r and q accept a common path prefix or a common header pair
SharesKey(r, q) ==
  \/ routers[r].acceptedPaths \cap routers[q].acceptedPaths # {}
  \/ HeaderPairs(r) \cap HeaderPairs(q) # {}

\* C5: no two distinct routers whose registration succeeded share a path
\* prefix or a (header name, header value) pair.
Uniqueness ==
  \A r, q \in registered : r # q => ~SharesKey(r, q)

\* C6: the first AddBackendRouter of a router that shares a path prefix or a
\* header pair with an already registered router returns the conflict error
\* and leaves both routing maps as they were.
AtomicConflictRejection ==
  [][\A r \in DOMAIN routers :
       ( /\ addResult[r] = "none" /\ addResult'[r] # "none"
         /\ \E q \in registered : q # r /\ SharesKey(r, q) )
       => /\ addResult'[r] = "conflict"
          /\ pathPrefixToBackendRouter' = pathPrefixToBackendRouter
          /\ headerToBackendRouter' = headerToBackendRouter]_vars

\* the longest registered prefix that the lower-cased path starts with
LongestPrefix(table, path) ==
  CHOOSE k \in PathPrefixMatches(table, path) :
    \A k2 \in PathPrefixMatches(table, path) : Len(k2) <= Len(k)

\* C7: a request whose path matches some registered prefix is resolved to the
\* router of the longest matching prefix.
LongestPrefixMatch ==
  [][\A p \in Procs :
       (pc[p] = "idle" /\ pc'[p] = "scan" /\ op'[p] = "request")
       => rtr'[p] = pathPrefixToBackendRouter[
                      LongestPrefix(pathPrefixToBackendRouter, reqPath'[p])]]_vars

\* C8: every header pair of a router whose registration succeeded resolves,
\* by GetBackendRouterByHeader, to a router.
HeaderRegistrationPersists ==
  \A r \in registered : \A n \in DOMAIN routers[r].acceptedHeaders :
    GetBackendRouterByHeader(headerToBackendRouter, n, routers[r].acceptedHeaders[n])
      # NoRouter

\* C9: every prefix of a router whose registration succeeded is found by the
\* exact look-up under every spelling equal to it up to case, and every path
\* that starts with it up to case finds a match by prefix.
CaseInsensitivity ==
  \A r \in registered : \A P \in routers[r].acceptedPaths :
    /\ \A Q \in PathPrefixes :
         ToLower(Q) = ToLower(P) =>
           GetBackendRouterByExactPathPrefix(pathPrefixToBackendRouter, Q) # NoRouter
    /\ \A path \in RequestPaths :
         HasPrefix(ToLower(path), ToLower(P)) =>
           GetBackendRouterByPathPrefix(pathPrefixToBackendRouter, path) # {}

\* a router of capacity 1 whose last three events are: GetBackend returned a
\* Backend, that Backend was released, GetBackend returned
ReuseCase(r) ==
  /\ routers[r].maxBackends = 1
  /\ Len(trail[r]) = 3
  /\ trail[r][1].ev = "acq" /\ trail[r][1].be # NoBackend
  /\ trail[r][2].ev = "rel" /\ trail[r][2].be = trail[r][1].be
  /\ trail[r][3].ev = "acq"

ErrorsAreClientVisible ==
  [][\A p \in Procs :
       (pc[p] = "fail" /\ pc'[p] = "idle")
       => res'[p].wrote # "none" /\ running']_vars

\* this step is a Release of Backend b through router r
ReleaseStep(r, b) ==
  /\ calls' = calls + 1
  /\ pc' = pc
  /\ DOMAIN routers' = DOMAIN routers
  /\ Len(trail'[r]) > 0
  /\ LET e == trail'[r][Len(trail'[r])]
     IN e.ev = "rel" /\ e.be = b /\ trail'[r] = Push(trail[r], e)

\* C12: a Release of a Backend that the router does not own, and a Release of
\* a Backend that is already released, change neither any InUse flag nor any
\* router's list, and end without an error.
ReleaseTolerance ==
  [][\A r \in DOMAIN routers : \A b \in DOMAIN InUse :
       (ReleaseStep(r, b) /\ (b \notin Owned(r) \/ ~InUse[b]))
       => InUse' = InUse /\ routers' = routers /\ running' = running]_vars

\* C12 witness: a Backend in use was released through a router that does not
\* own it, and is still in use
ReleaseToleranceWitness ==
  \E r \in DOMAIN routers :
    /\ Len(trail[r]) > 0
    /\ LET e == trail[r][Len(trail[r])]
       IN e.ev = "rel" /\ e.be \notin Owned(r) /\ InUse[e.be]

\* C13: a GetBackend that builds a Backend from a target address that does not
\* parse leaves the process running.
ConfigurationErrorKeepsRunning ==
  [][\A p \in Procs :
       (running /\ pc[p] = "create" /\ UrlParseFails(routers[rtr[p]].host))
       => running']_vars

\* C14: every Backend a GetBackend call returned was in use when the call
\* returned, whether the call found it in the list or created it.
InUseAtReturn ==
  \A r \in DOMAIN trail : \A i \in 1..Len(trail[r]) :
    (trail[r][i].ev = "acq" /\ trail[r][i].be # NoBackend) => trail[r][i].inUse

\* C15: a GetBackend that returns a Backend of the list returns the first
\* Backend of the list that is not in use, sets the flag of that Backend only
\* and leaves the list as it is; a GetBackend appends a new Backend only when
\* every Backend of the list is in use.
FirstFree ==
  [][\A p \in Procs :
       /\ (pc[p] = "mark" /\ pc'[p] # "mark" /\ res'[p].err = "nil")
          => LET backends == routers[rtr[p]].backends
                 b == res'[p].be
             IN /\ \E i \in 1..Len(backends) :
                     /\ backends[i] = b
                     /\ ~InUse[b]
                     /\ \A j \in 1..(i - 1) : InUse[backends[j]]
                /\ InUse' = [InUse EXCEPT ![b] = TRUE]
                /\ routers' = routers
       /\ (pc[p] = "append" /\ pc'[p] # "append")
          => \A b \in Owned(rtr[p]) : InUse[b]]_vars

\* C16: a request whose lower-cased path starts with no registered prefix
\* ends with the no-match error, starts no GetBackend on any router, and
\* changes no router's list and no InUse flag before its handler returns.
ResolutionFailureFrame ==
  [][\A p \in Procs :
       /\ ( /\ pc[p] = "idle" /\ pc'[p] # "idle" /\ op'[p] = "request"
            /\ PathPrefixMatches(pathPrefixToBackendRouter, reqPath'[p]) = {} )
          => /\ pc'[p] = "fail" /\ res'[p].err = "nomatch"
             /\ routers' = routers /\ InUse' = InUse
       /\ (pc[p] = "fail" /\ res[p].err = "nomatch" /\ pc'[p] # "fail")
          => /\ pc'[p] = "idle"
             /\ routers' = routers /\ InUse' = InUse]_vars

\* C16 witness: a request has failed at resolution while a prefix is
\* registered and a Backend is in use
ResolutionFailureFrameWitness ==
  \E p \in Procs :
    /\ pc[p] = "fail" /\ res[p].err = "nomatch"
    /\ DOMAIN pathPrefixToBackendRouter # {}
    /\ \E b \in DOMAIN InUse : InUse[b]

\* C17: the look-up by path prefix of a request fails with the no-match error
\* exactly when no key of the path table is a prefix of the lower-cased path,
\* and a look-up that succeeds yields a router the table maps from a key that
\* is a prefix of the lower-cased path.
PrefixResolution ==
  [][\A p \in Procs :
       (pc[p] = "idle" /\ pc'[p] # "idle" /\ op'[p] = "request")
       => LET table == pathPrefixToBackendRouter
              matching == {k \in DOMAIN table : HasPrefix(ToLower(reqPath'[p]), k)}
          IN /\ (pc'[p] = "fail" /\ res'[p].err = "nomatch") <=> (matching = {})
             /\ pc'[p] # "fail" => \E k \in matching : rtr'[p] = table[k]]_vars

\* C17 witness: a request whose path has an upper-case letter was resolved
\* to a router
PrefixResolutionWitness ==
  \E p \in Procs :
    /\ pc[p] = "scan" /\ op[p] = "request"
    /\ ToLower(reqPath[p]) # reqPath[p]
    /\ rtr[p] \in DOMAIN routers

\* C18: no step of a request or of a GetBackend call changes the path table
\* or the header table; a step that changes one of them is a successful
\* AddBackendRouter.
TableReadOnly ==
  [][/\ pc' # pc => /\ pathPrefixToBackendRouter' = pathPrefixToBackendRouter
                    /\ headerToBackendRouter' = headerToBackendRouter
     /\ ( \/ pathPrefixToBackendRouter' # pathPrefixToBackendRouter
          \/ headerToBackendRouter' # headerToBackendRouter )
        => /\ pc' = pc
           /\ \E r \in DOMAIN routers :
                /\ addResult'[r] = "nil"
                /\ registered' = registered \cup {r}]_vars

\* C18 witness: a request was resolved through a table that holds a prefix,
\* and its handler has returned
TableReadOnlyWitness ==
  /\ DOMAIN pathPrefixToBackendRouter # {}
  /\ \E p \in Procs : pc[p] = "idle" /\ res[p].err \in ForwardOutcomes

\* C19: no step shortens a router's list or changes the Backend at a position
\* of it, and a GetBackend that returns the pool-exhausted error leaves the
\* list as it was.
ListOnlyGrows ==
  [][\A r \in DOMAIN routers :
       LET old == routers[r].backends
           new == routers'[r].backends
       IN /\ Len(new) >= Len(old)
          /\ \A i \in 1..Len(old) : i <= Len(new) => new[i] = old[i]
          /\ \A p \in Procs :
               (rtr[p] = r /\ pc[p] = "scan" /\ pc'[p] # "scan"
                  /\ res'[p].err = "exhausted")
               => new = old]_vars

\* the positions at which Backend b stands in the routers' lists
Positions(b) ==
  {<<r, i>> \in (DOMAIN routers) \X (1..Cardinality(DOMAIN InUse)) :
     i <= Len(routers[r].backends) /\ routers[r].backends[i] = b}

\* a GetBackend call has created Backend b and not yet appended it
BeingAppended(b) == \E p \in Procs : pc[p] = "append" /\ cur[p] = b

\* C20: every Backend stands in exactly one router's list, once; and no step
\* of a GetBackend call on one router changes the list of another router or
\* the InUse flag of a Backend of another router.
ExclusiveOwnership ==
  /\ [](\A b \in DOMAIN InUse : ~BeingAppended(b) => Cardinality(Positions(b)) = 1)
  /\ [][\A p \in Procs :
          (pc[p] \in {"scan", "mark", "create", "append"}
             /\ (pc'[p] # pc[p] \/ idx'[p] # idx[p]))
          => \A q \in DOMAIN routers \ {rtr[p]} :
               /\ routers'[q] = routers[q]
               /\ \A b \in Owned(q) : InUse'[b] = InUse[b]]_vars

====
